---- MODULE Spec2Model ----
(***************************************************************************)
(* Model of zPixProxyScore: the concurrent proxy-validation pipeline of    *)
(* proxy_checker.py (check_proxy, check_proxies_with_threading), the flow  *)
(* of main.py and the post-run warning of gui.py.                          *)
(*                                                                         *)
(* Text is modelled as a sequence of one-character strings, so that        *)
(* str.split, the f-strings and "\n".join are computed, not assumed.       *)
(* Python values coming out of JSON are records [ty, n, s].                *)
(***************************************************************************)
EXTENDS Integers, Sequences, FiniteSets, TLC

(* ------------------------------ bounds -------------------------------- *)

\* largest number of input lines of one call
MaxBatch == 2

\* largest worker count (threads argument) of one call
MaxThreads == 2

\* largest number of calls of check_proxies_with_threading in one process
MaxRuns == 2

\* longest input line of the parsing specification
MaxLineLen == 4

\* largest number of result rows of the export-window specifications
MaxRows == 2

(* --------------------------- Python values ---------------------------- *)

PyInt(k) == [ty |-> "int", n |-> k, s |-> ""]

PyStr(t) == [ty |-> "str", n |-> 0, s |-> t]

PyBool(b) == [ty |-> "bool", n |-> IF b THEN 1 ELSE 0, s |-> ""]

PyNone == [ty |-> "none", n |-> 0, s |-> ""]

\* bool(v)
Truthy(v) ==
    CASE v.ty = "int" -> v.n # 0
      [] v.ty = "bool" -> v.n = 1
      [] v.ty = "str" -> v.s # ""
      [] OTHER -> FALSE

\* v >= 75 is defined for int and bool (a bool is an int); str and None
\* raise TypeError
Comparable(v) == v.ty \in {"int", "bool"}

\* str(v)
Str(v) ==
    CASE v.ty = "str" -> v.s
      [] v.ty = "bool" -> (IF v.n = 1 THEN "True" ELSE "False")
      [] v.ty = "none" -> "None"
      [] OTHER -> ToString(v.n)

\* d.get(k, default)
Get(d, k, default) == IF k \in DOMAIN d THEN d[k] ELSE default

EmptyDict == [k \in {} |-> PyNone]

(* ------------------------------- text --------------------------------- *)

RECURSIVE SplitFrom(_, _, _)
\* the fields of text t from position i on, cur being the field under
\* construction: str.split(sep) keeps empty fields
SplitFrom(t, sep, cur) ==
    IF t = <<>> THEN <<cur>>
    ELSE IF Head(t) = sep THEN <<cur>> \o SplitFrom(Tail(t), sep, <<>>)
    ELSE SplitFrom(Tail(t), sep, Append(cur, Head(t)))

\* t.split(sep)
Split(t, sep) == SplitFrom(t, sep, <<>>)

RECURSIVE Join(_, _)
\* sep.join(parts)
Join(parts, sep) ==
    IF parts = <<>> THEN <<>>
    ELSE IF Len(parts) = 1 THEN parts[1]
    ELSE parts[1] \o <<sep>> \o Join(Tail(parts), sep)

\* the literal prefix of f"Malformed: {proxy}"
MalformedPrefix == <<"M", "a", "l", "f", "o", "r", "m", "e", "d", ":", " ">>

\* f"Malformed: {proxy}"
MalformedEntry(proxy) == MalformedPrefix \o proxy

\* f"Username: {user}\nPassword: {password}\nPort: {port}"
Details(user, password, port) ==
    <<"Username", ":", " ">> \o user \o <<"\n", "Password", ":", " ">>
        \o password \o <<"\n", "Port", ":", " ">> \o port

(* ------------------------- network responses -------------------------- *)

\* what requests.get(...) followed by .json() can give: a transport error
\* (connect failure, timeout), a body that is not JSON, or a JSON object
Response(transport, json, body) ==
    [transport |-> transport, json |-> json, body |-> body]

NoResponse == Response("none", FALSE, EmptyDict)

TransportError == Response("error", FALSE, EmptyDict)

NotJson == Response("ok", FALSE, EmptyDict)

Json(body) == Response("ok", TRUE, body)

GeoOk ==
    Json([status |-> PyStr("success"), query |-> PyStr("9.9.9.9"),
          city |-> PyStr("Oslo"), regionName |-> PyStr("Oslo County")])

\* the service answers a failed lookup with status "fail"
GeoRejected ==
    Json([status |-> PyStr("fail"), query |-> PyStr("9.9.9.9"),
          city |-> PyStr(""), regionName |-> PyStr("")])

GeoNoStatus == Json(EmptyDict)

GeoNoQuery ==
    Json([status |-> PyStr("success"), city |-> PyStr("Oslo"),
          regionName |-> PyStr("Oslo County")])

GeoNoCity ==
    Json([status |-> PyStr("success"), query |-> PyStr("9.9.9.9"),
          regionName |-> PyStr("Oslo County")])

GeoNoRegion ==
    Json([status |-> PyStr("success"), query |-> PyStr("9.9.9.9"),
          city |-> PyStr("Oslo")])

GeoResponses ==
    {TransportError, NotJson, GeoRejected, GeoNoStatus, GeoNoQuery,
     GeoNoCity, GeoNoRegion, GeoOk}

FraudFull(score) ==
    Json([success |-> PyBool(TRUE), fraud_score |-> score,
          ISP |-> PyStr("Telenor"), proxy |-> PyBool(TRUE),
          vpn |-> PyBool(FALSE), tor |-> PyBool(FALSE),
          mobile |-> PyBool(FALSE), recent_abuse |-> PyBool(TRUE),
          bot_status |-> PyBool(FALSE)])

FraudBare == Json([success |-> PyBool(TRUE)])

FraudRejected == Json([success |-> PyBool(FALSE)])

FraudNoFlag == Json(EmptyDict)

FraudResponses ==
    {TransportError, NotJson, FraudRejected, FraudNoFlag, FraudBare,
     FraudFull(PyInt(74)), FraudFull(PyInt(75)), FraudFull(PyStr("high"))}

(* ------------------------------ inputs -------------------------------- *)

OkLine == <<"1", ":", "8", ":", "u", ":", "p">>

EmptyFieldsLine == <<":", ":", ":">>

ShortLine == <<"b">>

LongLine == <<"1", ":", "8", ":", "u", ":", "p", ":", "x">>

Lines == {OkLine, EmptyFieldsLine, ShortLine, LongLine}

RECURSIVE SeqsUpTo(_, _)
\* the sequences over S of length at most k
SeqsUpTo(S, k) ==
    IF k = 0 THEN {<<>>}
    ELSE LET shorter == SeqsUpTo(S, k - 1)
         IN shorter \cup {Append(q, x) : q \in shorter, x \in S}

Batches == SeqsUpTo(Lines, MaxBatch)

Alphabet == {"1", "x", ":"}

AllLines == SeqsUpTo(Alphabet, MaxLineLen)

(* ------------------------------- state -------------------------------- *)

VARIABLES
    results,          \* proxy_checker.results
    summary,          \* proxy_checker.summary
    failed_proxies,   \* proxy_checker.failed_proxies
    proxies,          \* argument of the current call
    threads,          \* argument of the current call
    coord,            \* position of the caller of check_proxies_with_threading
    nsub,             \* number of tasks submitted to the executor
    fidx,             \* number of futures whose result() has returned
    task,             \* per submitted line: position and locals of check_proxy
    runs,             \* number of calls made so far
    warning,          \* the showwarning box of display_gui_table
    win,              \* the export window: "closed", "open" or "destroyed"
    children,         \* export_tree.get_children(): the iids in display order
    selected_iids,    \* open_export_window.selected_iids
    select_all_var,   \* the Select All checkbox
    last_iid,         \* anchor of the shift-click, 0 for None
    sort_col,         \* column of the last handler sort, "" for None
    sort_reverse,     \* open_export_window.sort_reverse
    heading,          \* per column: the command of its export_tree heading
    max_fs_var,       \* text of the Max Fraud Score field
    bool_vars,        \* per boolean column: "All", "True" or "False"
    column_vars,      \* per column: its CSV Format Columns checkbox
    format_var,       \* the Export Format choice: "txt" or "csv"
    template_var,     \* text of the template field
    message,          \* title of the last messagebox, "Traceback" after a
                      \* callback that raised, "" if none
    dialog,           \* an asksaveasfilename dialog has been shown
    file,             \* the file written by do_export
    tree,             \* results table: per display position, the result row
                      \* (1-based) the item was inserted for
    tree_heading,     \* results table: per column, the reverse argument of
                      \* the command of its heading
    details           \* text of the last Proxy Details box, empty if none

\* the state of the export window
window ==
    <<win, children, selected_iids, select_all_var, last_iid, sort_col,
      sort_reverse, heading, max_fs_var, bool_vars, column_vars, format_var,
      template_var, message, dialog, file>>

\* the state of the results table of display_gui_table
table == <<tree, tree_heading, details>>

vars ==
    <<results, summary, failed_proxies, proxies, threads, coord, nsub, fidx,
      task, runs, warning, window, table>>

aggregate == <<results, summary, failed_proxies>>

NewTask ==
    [pc |-> "queued", geo |-> NoResponse, fraud |-> NoResponse,
     fraud_score |-> PyNone, tmp |-> 0, exc |-> "none",
     geoReqs |-> 0, fraudReqs |-> 0]

NoWarning == [shown |-> FALSE, text |-> <<>>]

\* column_names of open_export_window, in canonical order; the columns of
\* the results table (gui.py) are the same list
column_names ==
    <<"Proxy IP", "Public IP", "Location", "ISP", "Fraud Score", "Proxy",
      "VPN", "Tor", "Mobile", "Recent Abuse", "Bot Status">>

Columns == {column_names[k] : k \in DOMAIN column_names}

\* cols.index(col) + 1
ColumnIndex(col) == CHOOSE k \in DOMAIN column_names : column_names[k] = col

bool_cols == {"Proxy", "VPN", "Tor", "Mobile", "Recent Abuse", "Bot Status"}

\* the heading command installed by open_export_window
HandlerCommand == [kind |-> "handler", reverse |-> FALSE]

\* the heading command installed by sort_by_column(tv, col, reverse):
\* lambda: sort_by_column(tv, col, not reverse)
LambdaCommand(reverse) == [kind |-> "lambda", reverse |-> ~reverse]

\* "{Proxy IP}:{Port}:{Username}:{Password}"
DefaultTemplate ==
    <<"{", "Proxy IP", "}", ":", "{", "Port", "}", ":", "{", "Username", "}",
      ":", "{", "Password", "}">>

NoFile == [written |-> FALSE, path |-> "", kind |-> "", content |-> <<>>]

Init ==
    /\ results = <<>>
    /\ summary = [total |-> 0, high_risk |-> 0]
    /\ failed_proxies = <<>>
    /\ proxies = <<>>
    /\ threads = 1
    /\ coord = "idle"
    /\ nsub = 0
    /\ fidx = 0
    /\ task = <<>>
    /\ runs = 0
    /\ warning = NoWarning
    /\ win = "closed"
    /\ children = <<>>
    /\ selected_iids = {}
    /\ select_all_var = FALSE
    /\ last_iid = 0
    /\ sort_col = ""
    /\ sort_reverse = FALSE
    /\ heading = [c \in Columns |-> HandlerCommand]
    /\ max_fs_var = <<"1", "0", "0">>
    /\ bool_vars = [c \in bool_cols |-> "All"]
    /\ column_vars = [c \in Columns |-> TRUE]
    /\ format_var = "txt"
    /\ template_var = DefaultTemplate
    /\ message = ""
    /\ dialog = FALSE
    /\ file = NoFile
    /\ tree = <<>>
    /\ tree_heading = [c \in Columns |-> FALSE]
    /\ details = <<>>

(* --------------------------- check_proxy ------------------------------ *)

\* variant of ExceptionCaught: the clause is
\* "except requests.RequestException"
ExceptionCaughtRequestsOnly(e) == e = "RequestException"

\* the except clause "except Exception" around the two requests: every
\* exception class the body can raise derives from Exception
ExceptionCaught(e) ==
    e \in {"RequestException", "JSONDecodeError", "KeyError", "TypeError"}

\* variant of Parses: the unpacking takes the first four fields and ignores
\* the rest
ParsesAtLeastFour(proxy) == Len(Split(proxy, ":")) >= 4

\* ip, port, user, password = proxy.split(':') raises ValueError unless the
\* split gives exactly four fields
Parses(proxy) == Len(Split(proxy, ":")) = 4

\* variant of GeoStep: the status of the geolocation answer is not tested
GeoStepNoStatus(r) ==
    IF r.transport = "error" THEN "RequestException"
    ELSE IF ~r.json THEN "JSONDecodeError"
    ELSE IF "query" \notin DOMAIN r.body THEN "KeyError"
    ELSE IF "city" \notin DOMAIN r.body THEN "KeyError"
    ELSE IF "regionName" \notin DOMAIN r.body THEN "KeyError"
    ELSE "ok"

\* what the geolocation step of the try body does with response r:
\* "ok" (go on to the fraud call), "rejected" (status is not 'success'),
\* or the exception raised
GeoStep(r) ==
    IF r.transport = "error" THEN "RequestException"
    ELSE IF ~r.json THEN "JSONDecodeError"
    ELSE IF Get(r.body, "status", PyNone) # PyStr("success") THEN "rejected"
    ELSE IF "query" \notin DOMAIN r.body THEN "KeyError"
    ELSE IF "city" \notin DOMAIN r.body THEN "KeyError"
    ELSE IF "regionName" \notin DOMAIN r.body THEN "KeyError"
    ELSE "ok"

\* fraud_data.get('fraud_score', 0)
FraudScore(r) == Get(r.body, "fraud_score", PyInt(0))

\* variant of HighRisk: the threshold test is "fraud_score > 75"
HighRiskAbove(score) == score.n > 75

\* fraud_score >= 75
HighRisk(score) == score.n >= 75

\* variant of FraudStep: the success flag of the fraud answer is not tested
FraudStepNoFlag(r) ==
    IF r.transport = "error" THEN "RequestException"
    ELSE IF ~r.json THEN "JSONDecodeError"
    ELSE IF ~Comparable(Get(r.body, "fraud_score", PyInt(0))) THEN "TypeError"
    ELSE "ok"

\* what the fraud step does with response r: "ok" (a row is built),
\* "rejected" (falsy success flag), or the exception raised
FraudStep(r) ==
    IF r.transport = "error" THEN "RequestException"
    ELSE IF ~r.json THEN "JSONDecodeError"
    ELSE IF ~Truthy(Get(r.body, "success", PyNone)) THEN "rejected"
    ELSE IF ~Comparable(FraudScore(r)) THEN "TypeError"
    ELSE "ok"

\* the row list built by check_proxy (row[0] of the code is Row(..)[1])
Row(proxy, geo_data, fraud_data, fraud_score) ==
    LET f == Split(proxy, ":")
    IN <<f[1],
         geo_data["query"],
         <<Str(geo_data["city"]), ", ", Str(geo_data["regionName"])>>,
         Get(fraud_data, "ISP", PyStr("N/A")),
         fraud_score,
         Get(fraud_data, "proxy", PyStr("N/A")),
         Get(fraud_data, "vpn", PyStr("N/A")),
         Get(fraud_data, "tor", PyStr("N/A")),
         Get(fraud_data, "mobile", PyStr("N/A")),
         Get(fraud_data, "recent_abuse", PyStr("N/A")),
         Get(fraud_data, "bot_status", PyStr("N/A")),
         Details(f[3], f[4], f[2])>>

Tasks == 1 .. nsub

\* variant of Executing: a worker that ran a task is not given back to the
\* pool
ExecutingLeak(i) == task[i].pc # "queued"

\* the task occupies a worker thread of the pool
Executing(i) == task[i].pc \notin {"queued", "done"}

\* a future is done when its call has returned or raised
TaskFinished(i) == task[i].pc = "done"

\* variant of Raise: the handler is "except Exception: pass", the failure
\* is not recorded
RaiseSwallowed(i, e, t) ==
    /\ failed_proxies' = failed_proxies
    /\ task' = [task EXCEPT ![i] = [t EXCEPT !.pc = "done"]]

\* the task leaves check_proxy by an exception e raised in the try body:
\* caught and recorded as a failure, or stored in the future
Raise(i, e, t) ==
    IF ExceptionCaught(e)
    THEN /\ failed_proxies' = Append(failed_proxies, proxies[i])
         /\ task' = [task EXCEPT ![i] = [t EXCEPT !.pc = "done"]]
    ELSE /\ failed_proxies' = failed_proxies
         /\ task' = [task EXCEPT ![i] = [t EXCEPT !.pc = "done", !.exc = e]]

\* variant of Start: one thread is started per line, max_workers is ignored
StartNoPool(i) ==
    /\ i \in Tasks
    /\ task[i].pc = "queued"
    /\ IF Parses(proxies[i])
       THEN /\ task' = [task EXCEPT ![i].pc = "geo", ![i].geoReqs = @ + 1]
            /\ failed_proxies' = failed_proxies
       ELSE /\ task' = [task EXCEPT ![i].pc = "done"]
            /\ failed_proxies' =
                   Append(failed_proxies, MalformedEntry(proxies[i]))
    /\ UNCHANGED <<window, table, results, summary, proxies, threads, coord, nsub, fidx,
                   runs, warning>>

\* a worker thread takes the oldest queued work item and runs check_proxy
\* up to the geolocation request (lines 29-44)
Start(i) ==
    /\ i \in Tasks
    /\ task[i].pc = "queued"
    /\ \A j \in 1 .. i - 1 : task[j].pc # "queued"
    /\ Cardinality({j \in Tasks : Executing(j)}) < threads
    /\ IF Parses(proxies[i])
       THEN /\ task' = [task EXCEPT ![i].pc = "geo", ![i].geoReqs = @ + 1]
            /\ failed_proxies' = failed_proxies
       ELSE /\ task' = [task EXCEPT ![i].pc = "done"]
            /\ failed_proxies' =
                   Append(failed_proxies, MalformedEntry(proxies[i]))
    /\ UNCHANGED <<window, table, results, summary, proxies, threads, coord, nsub, fidx,
                   runs, warning>>

\* the geolocation call returns r or times out (lines 44-56)
GeoReturn(i, r) ==
    /\ i \in Tasks
    /\ task[i].pc = "geo"
    /\ LET t == [task[i] EXCEPT !.geo = r]
           step == GeoStep(r)
       IN IF step = "ok"
          THEN /\ task' = [task EXCEPT ![i] =
                              [t EXCEPT !.pc = "fraud", !.fraudReqs = @ + 1]]
               /\ failed_proxies' = failed_proxies
          ELSE IF step = "rejected"
          THEN /\ task' = [task EXCEPT ![i] = [t EXCEPT !.pc = "done"]]
               /\ failed_proxies' = Append(failed_proxies, proxies[i])
          ELSE Raise(i, step, t)
    /\ UNCHANGED <<window, table, results, summary, proxies, threads, coord, nsub, fidx,
                   runs, warning>>

\* the fraud call returns r or times out (lines 56-62)
FraudReturn(i, r) ==
    /\ i \in Tasks
    /\ task[i].pc = "fraud"
    /\ LET t == [task[i] EXCEPT !.fraud = r]
           step == FraudStep(r)
       IN IF step = "ok"
          THEN /\ task' = [task EXCEPT ![i] =
                              [t EXCEPT !.fraud_score = FraudScore(r),
                                        !.pc = IF HighRisk(FraudScore(r))
                                               THEN "hr_load" ELSE "append"]]
               /\ failed_proxies' = failed_proxies
          ELSE IF step = "rejected"
          THEN /\ task' = [task EXCEPT ![i] = [t EXCEPT !.pc = "done"]]
               /\ failed_proxies' = Append(failed_proxies, proxies[i])
          ELSE Raise(i, step, t)
    /\ UNCHANGED <<window, table, results, summary, proxies, threads, coord, nsub, fidx,
                   runs, warning>>

\* summary["high_risk"] += 1 is a load, an add and a store; no lock is held
\* and another thread may run between the load and the store (line 63)
HighRiskLoad(i) ==
    /\ i \in Tasks
    /\ task[i].pc = "hr_load"
    /\ task' = [task EXCEPT ![i].tmp = summary.high_risk, ![i].pc = "hr_store"]
    /\ UNCHANGED <<window, table, aggregate, proxies, threads, coord, nsub, fidx, runs,
                   warning>>

HighRiskStore(i) ==
    /\ i \in Tasks
    /\ task[i].pc = "hr_store"
    /\ summary' = [summary EXCEPT !.high_risk = task[i].tmp + 1]
    /\ task' = [task EXCEPT ![i].pc = "append"]
    /\ UNCHANGED <<window, table, results, failed_proxies, proxies, threads, coord, nsub,
                   fidx, runs, warning>>

\* results.append(row) (lines 66-80)
AppendRow(i) ==
    /\ i \in Tasks
    /\ task[i].pc = "append"
    /\ results' = Append(results,
                         Row(proxies[i], task[i].geo.body, task[i].fraud.body,
                             task[i].fraud_score))
    /\ task' = [task EXCEPT ![i].pc = "tot_load"]
    /\ UNCHANGED <<window, table, summary, failed_proxies, proxies, threads, coord, nsub,
                   fidx, runs, warning>>

\* summary["total"] += 1, load then store (line 81)
TotalLoad(i) ==
    /\ i \in Tasks
    /\ task[i].pc = "tot_load"
    /\ task' = [task EXCEPT ![i].tmp = summary.total, ![i].pc = "tot_store"]
    /\ UNCHANGED <<window, table, aggregate, proxies, threads, coord, nsub, fidx, runs,
                   warning>>

TotalStore(i) ==
    /\ i \in Tasks
    /\ task[i].pc = "tot_store"
    /\ summary' = [summary EXCEPT !.total = task[i].tmp + 1]
    /\ task' = [task EXCEPT ![i].pc = "done"]
    /\ UNCHANGED <<window, table, results, failed_proxies, proxies, threads, coord, nsub,
                   fidx, runs, warning>>

(* ------------------- check_proxies_with_threading --------------------- *)

\* the call: the executor is created with max_workers = th
Call(ps, th) ==
    /\ coord \in {"idle", "returned", "displayed"}
    /\ proxies' = ps
    /\ threads' = th
    /\ coord' = "running"
    /\ nsub' = 0
    /\ fidx' = 0
    /\ task' = [i \in 1 .. Len(ps) |-> NewTask]
    /\ runs' = runs + 1
    /\ UNCHANGED <<window, table, aggregate, warning>>

\* executor.submit(check_proxy, proxy, api_key) for the next line
Submit ==
    /\ coord = "running"
    /\ nsub < Len(proxies)
    /\ nsub' = nsub + 1
    /\ UNCHANGED <<window, table, aggregate, proxies, threads, coord, fidx, task, runs,
                   warning>>

\* future.result() of the next future: blocks until the task is finished,
\* then returns None or re-raises the exception of the task
FutureResult ==
    /\ coord = "running"
    /\ nsub = Len(proxies)
    /\ fidx < Len(proxies)
    /\ TaskFinished(fidx + 1)
    /\ IF task[fidx + 1].exc = "none"
       THEN fidx' = fidx + 1 /\ coord' = coord
       ELSE fidx' = fidx /\ coord' = "unwinding"
    /\ UNCHANGED <<window, table, aggregate, proxies, threads, nsub, task, runs, warning>>

\* variant of CoordReturn: the executor is shut down without waiting and
\* the futures are not awaited
CoordReturnNoJoin ==
    /\ coord = "running"
    /\ nsub = Len(proxies)
    /\ coord' = "returned"
    /\ UNCHANGED <<window, table, aggregate, proxies, threads, nsub, fidx, task, runs,
                   warning>>

\* leaving the with block: shutdown(wait=True) joins the workers, then the
\* function returns, or the pending exception propagates to the caller
CoordReturn ==
    /\ \/ coord = "running" /\ nsub = Len(proxies) /\ fidx = Len(proxies)
       \/ coord = "unwinding"
    /\ \A i \in Tasks : TaskFinished(i)
    /\ coord' = IF coord = "unwinding" THEN "raised" ELSE "returned"
    /\ UNCHANGED <<window, table, aggregate, proxies, threads, nsub, fidx, task, runs,
                   warning>>

(* ------------------------- display_gui_table -------------------------- *)

\* main() shows the table after the call returned: one item per result
\* row in the order of the results, every heading with the command
\* sort_by_column(tree, c, False) (gui.py lines 100-101, 125-131); the
\* warning box lists the failed proxies if there are any (lines 150-153)
Display ==
    /\ coord = "returned"
    /\ coord' = "displayed"
    /\ warning' = IF failed_proxies # <<>>
                  THEN [shown |-> TRUE, text |-> Join(failed_proxies, "\n")]
                  ELSE NoWarning
    /\ tree' = [k \in DOMAIN results |-> k]
    /\ tree_heading' = [c \in Columns |-> FALSE]
    /\ UNCHANGED <<window, details, aggregate, proxies, threads, nsub, fidx, task,
                   runs>>

(* --------------------------- export window --------------------------- *)

\* the variables of the checker and of the results table
checker ==
    <<results, summary, failed_proxies, proxies, threads, coord, nsub, fidx,
      task, runs, warning>>

Digits == {"0", "1", "2", "3", "4", "5", "6", "7", "8", "9"}

\* P.isdigit(): a non-empty text of decimal digits
IsDigitText(P) == P # <<>> /\ \A k \in DOMAIN P : P[k] \in Digits

DigitValue(c) ==
    CASE c = "0" -> 0 [] c = "1" -> 1 [] c = "2" -> 2 [] c = "3" -> 3
      [] c = "4" -> 4 [] c = "5" -> 5 [] c = "6" -> 6 [] c = "7" -> 7
      [] c = "8" -> 8 [] c = "9" -> 9

RECURSIVE IntOf(_)
\* int(P) of a text of decimal digits
IntOf(P) ==
    IF P = <<>> THEN 0
    ELSE 10 * IntOf(SubSeq(P, 1, Len(P) - 1)) + DigitValue(P[Len(P)])

\* variant of on_validate: every text of digits is accepted
on_validate_digits(P) == P = <<>> \/ IsDigitText(P)

\* on_validate(P): the edit of the Max Fraud Score field is accepted
on_validate(P) == P = <<>> \/ (IsDigitText(P) /\ IntOf(P) >= 0 /\ IntOf(P) <= 100)

\* max_val of refresh: int(max_fs_var.get()), 0 for the empty text and for
\* a text int() rejects
MaxVal(text) ==
    IF text = <<>> THEN 0
    ELSE IF IsDigitText(text) THEN IntOf(text)
    ELSE 0

\* variant of Passes: a row whose score equals the maximum is hidden
PassesBelow(row, text, bools) ==
    /\ row[5].n < MaxVal(text)
    /\ \A col \in bool_cols :
           bools[col] = "All" \/ Str(row[ColumnIndex(col)]) = bools[col]

\* the body of the loop of refresh: the row is not skipped by a continue
Passes(row, text, bools) ==
    /\ ~(row[5].n > MaxVal(text))
    /\ \A col \in bool_cols :
           ~(bools[col] # "All" /\ Str(row[ColumnIndex(col)]) # bools[col])

\* variant of FilterRows: the rows are filtered by removing the failing
\* ones from the list that is being iterated, so the row that follows a
\* removed row is never tested
FilterRowsInPlace(rows, text, bools) ==
    LET n == Len(rows)
        walk[k \in 1 .. n + 2] ==
            IF k > n THEN <<>>
            ELSE IF Passes(rows[k], text, bools) THEN <<k>> \o walk[k + 1]
            ELSE IF k + 1 <= n THEN <<k + 1>> \o walk[k + 2]
            ELSE <<>>
    IN walk[1]

\* the loop of refresh over enumerate(rows): the positions of the rows that
\* are inserted, in insertion order (position k is iid str(k - 1))
FilterRows(rows, text, bools) ==
    LET n == Len(rows)
        walk[k \in 1 .. n + 1] ==
            IF k > n THEN <<>>
            ELSE IF Passes(rows[k], text, bools) THEN <<k>> \o walk[k + 1]
            ELSE walk[k + 1]
    IN walk[1]

\* float(cell) succeeds for the text of a cell: the cells of the modelled
\* rows are numbers (Fraud Score), booleans, 'N/A' and names
IsFloatCell(v) == v.ty = "int"

\* position of str(cell) in the string order of the texts of the boolean
\* columns: "False" < "N/A" < "True"
StrRank(v) ==
    CASE Str(v) = "False" -> 1
      [] Str(v) = "N/A" -> 2
      [] Str(v) = "True" -> 3
      [] OTHER -> 4

\* the list data of sort_by_column after data.sort: a stable sort of the
\* iids of order by the cell of column col, as floats when every cell is a
\* float and as strings otherwise; reverse keeps equal cells in their order
SortedBy(order, col, reverse) ==
    LET cell(k) == results[order[k]][ColumnIndex(col)]
        numeric == \A k \in DOMAIN order : IsFloatCell(cell(k))
        key(k) == IF numeric THEN cell(k).n ELSE StrRank(cell(k))
        before(a, b) ==
            \/ (IF reverse THEN key(a) > key(b) ELSE key(a) < key(b))
            \/ key(a) = key(b) /\ a < b
        pos(k) == 1 + Cardinality({a \in DOMAIN order : before(a, k)})
    IN [p \in DOMAIN order |-> order[CHOOSE k \in DOMAIN order : pos(k) = p]]

\* export_tree.get_children() as a set
Displayed == {children[k] : k \in DOMAIN children}

\* variant of Refresh: the selection is not cleared
RefreshKeepingSelection(text, bools) ==
    LET shown == FilterRows(results, text, bools)
    IN /\ children' = IF sort_col # ""
                      THEN SortedBy(shown, sort_col, ~sort_reverse)
                      ELSE shown
       /\ selected_iids' = IF select_all_var
                           THEN selected_iids \cup {shown[k] : k \in DOMAIN shown}
                           ELSE selected_iids
       /\ heading' = IF sort_col # ""
                     THEN [heading EXCEPT ![sort_col] = LambdaCommand(~sort_reverse)]
                     ELSE heading

\* refresh(): the table is rebuilt from original_rows under the filter
\* (text, bools), the selection is cleared and rebuilt from Select All, and
\* the last handler sort is applied again
Refresh(text, bools) ==
    LET shown == FilterRows(results, text, bools)
    IN /\ children' = IF sort_col # ""
                      THEN SortedBy(shown, sort_col, ~sort_reverse)
                      ELSE shown
       /\ selected_iids' = IF select_all_var
                           THEN {shown[k] : k \in DOMAIN shown}
                           ELSE {}
       /\ heading' = IF sort_col # ""
                     THEN [heading EXCEPT ![sort_col] = LambdaCommand(~sort_reverse)]
                     ELSE heading

\* a key or arrow edit of the Max Fraud Score field that leaves text P: a
\* rejected edit changes nothing, an accepted one writes max_fs_var, whose
\* trace calls refresh
SetMaxFs(P) ==
    /\ win = "open"
    /\ IF on_validate(P)
       THEN /\ max_fs_var' = P
            /\ Refresh(P, bool_vars)
       ELSE UNCHANGED <<max_fs_var, children, selected_iids, heading>>
    /\ UNCHANGED <<checker, table, win, select_all_var, last_iid, sort_col,
                   sort_reverse, bool_vars, column_vars, format_var,
                   template_var, message, dialog, file>>

\* a choice in the combobox of boolean column col; the trace of its
\* variable calls refresh
SetBoolFilter(col, v) ==
    /\ win = "open"
    /\ bool_vars' = [bool_vars EXCEPT ![col] = v]
    /\ Refresh(max_fs_var, bool_vars')
    /\ UNCHANGED <<checker, table, win, select_all_var, last_iid, sort_col,
                   sort_reverse, max_fs_var, column_vars, format_var,
                   template_var, message, dialog, file>>

\* a click on the Select All checkbox: the variable is toggled, then
\* on_select_all runs
OnSelectAll ==
    /\ win = "open"
    /\ select_all_var' = ~select_all_var
    /\ selected_iids' = IF select_all_var'
                        THEN selected_iids \cup Displayed
                        ELSE selected_iids \ Displayed
    /\ UNCHANGED <<checker, table, win, children, last_iid, sort_col, sort_reverse,
                   heading, max_fs_var, bool_vars, column_vars, format_var,
                   template_var, message, dialog, file>>

\* variant of OnClearSelected: the Select All checkbox is left as it is
OnClearSelectedOnly ==
    /\ win = "open"
    /\ selected_iids' = {}
    /\ select_all_var' = select_all_var
    /\ UNCHANGED <<checker, table, win, children, last_iid, sort_col, sort_reverse,
                   heading, max_fs_var, bool_vars, column_vars, format_var,
                   template_var, message, dialog, file>>

\* on_clear_selected
OnClearSelected ==
    /\ win = "open"
    /\ selected_iids' = {}
    /\ select_all_var' = FALSE
    /\ UNCHANGED <<checker, table, win, children, last_iid, sort_col, sort_reverse,
                   heading, max_fs_var, bool_vars, column_vars, format_var,
                   template_var, message, dialog, file>>

\* on_ctrl_a
OnCtrlA ==
    /\ win = "open"
    /\ select_all_var' = TRUE
    /\ selected_iids' = selected_iids \cup Displayed
    /\ UNCHANGED <<checker, table, win, children, last_iid, sort_col, sort_reverse,
                   heading, max_fs_var, bool_vars, column_vars, format_var,
                   template_var, message, dialog, file>>

\* on_tree_click on the row iid, with or without the shift key; a
\* children.index(last_iid) that raises ValueError ends the callback before
\* it changed anything, and Tk prints the traceback
OnTreeClick(iid, shift) ==
    /\ win = "open"
    /\ iid \in Displayed
    /\ IF shift /\ last_iid # 0 /\ iid # last_iid /\ last_iid \notin Displayed
       THEN /\ message' = "Traceback"
            /\ UNCHANGED <<selected_iids, last_iid, select_all_var>>
       ELSE /\ selected_iids' =
                   IF shift /\ last_iid # 0 /\ iid # last_iid
                   THEN LET start == CHOOSE k \in DOMAIN children :
                                         children[k] = last_iid
                            end == CHOOSE k \in DOMAIN children :
                                       children[k] = iid
                            lo == IF start < end THEN start ELSE end
                            hi == IF start < end THEN end ELSE start
                        IN selected_iids \cup {children[k] : k \in lo .. hi}
                   ELSE IF iid \in selected_iids
                   THEN selected_iids \ {iid}
                   ELSE selected_iids \cup {iid}
            /\ last_iid' = iid
            /\ select_all_var' = (\A c \in Displayed : c \in selected_iids')
            /\ UNCHANGED message
    /\ UNCHANGED <<checker, table, win, children, sort_col, sort_reverse, heading,
                   max_fs_var, bool_vars, column_vars, format_var,
                   template_var, dialog, file>>

\* a click on the heading of column col of the export table: the command
\* is handler until sort_by_column has replaced it by its own lambda, which
\* sorts without updating sort_col and sort_reverse
HeadingClick(col) ==
    /\ win = "open"
    /\ LET reverse == IF heading[col].kind = "handler"
                      THEN sort_reverse
                      ELSE heading[col].reverse
       IN /\ children' = SortedBy(children, col, reverse)
          /\ heading' = [heading EXCEPT ![col] = LambdaCommand(reverse)]
    /\ IF heading[col].kind = "handler"
       THEN sort_col' = col /\ sort_reverse' = ~sort_reverse
       ELSE UNCHANGED <<sort_col, sort_reverse>>
    /\ UNCHANGED <<checker, table, win, selected_iids, select_all_var, last_iid,
                   max_fs_var, bool_vars, column_vars, format_var,
                   template_var, message, dialog, file>>

(* --------------------------- results table --------------------------- *)

\* a click on the heading of column col of the results table: the command
\* sorts with its reverse argument and installs the command with the
\* opposite one (utils.sort_by_column)
TreeHeadingClick(col) ==
    /\ coord = "displayed"
    /\ tree' = SortedBy(tree, col, tree_heading[col])
    /\ tree_heading' = [tree_heading EXCEPT ![col] = ~tree_heading[col]]
    /\ UNCHANGED <<checker, window, details>>

\* show_details for a double-click on the item at display position pos:
\* idx = tree.index(item), details = results[idx][-1]
ShowDetails(pos) ==
    /\ coord = "displayed"
    /\ pos \in DOMAIN tree
    /\ details' = results[pos][12]
    /\ UNCHANGED <<checker, window, tree, tree_heading>>

(* ------------------------------ do_export ----------------------------- *)

\* A text is a sequence of atoms; an atom is a character ("{", "}", ":",
\* ",", " ", a quote, a line end) or a block of characters that are none
\* of these (a name, a number).

RECURSIVE Concat(_)
\* the concatenation of a sequence of texts
Concat(ts) == IF ts = <<>> THEN <<>> ELSE Head(ts) \o Concat(Tail(ts))

\* str(row[i - 1]) of a result row: the host is a field of the input line,
\* the location is f"{city}, {region}", the other cells are JSON values
CellText(row, i) ==
    IF i = 1 THEN row[1]
    ELSE IF i = 3 THEN <<row[3][1], ",", " ", row[3][3]>>
    ELSE IF Str(row[i]) = "" THEN <<>>
    ELSE <<Str(row[i])>>

\* t.splitlines(): the lines of t without their line ends; a final line
\* end opens no empty line
SplitLines(t) ==
    LET parts == Split(t, "\n")
    IN IF parts[Len(parts)] = <<>>
       THEN SubSeq(parts, 1, Len(parts) - 1)
       ELSE parts

Whitespace == {" ", "\t"}

RECURSIVE LStrip(_)
LStrip(t) ==
    IF t # <<>> /\ Head(t) \in Whitespace THEN LStrip(Tail(t)) ELSE t

RECURSIVE RStrip(_)
RStrip(t) ==
    IF t # <<>> /\ t[Len(t)] \in Whitespace
    THEN RStrip(SubSeq(t, 1, Len(t) - 1))
    ELSE t

\* t.strip()
Strip(t) == RStrip(LStrip(t))

\* d[key] = value on a dict kept as the sequence of its items in insertion
\* order: an existing key keeps its place
DictSet(d, key, value) ==
    IF \E k \in DOMAIN d : d[k].key = key
    THEN [k \in DOMAIN d |->
             IF d[k].key = key THEN [key |-> key, value |-> value] ELSE d[k]]
    ELSE Append(d, [key |-> key, value |-> value])

RECURSIVE AddDetails(_, _)
\* the loop over details_text.splitlines(): a line with a ":" is split at
\* its first ":" into a key and a value, both stripped
AddDetails(d, lines) ==
    IF lines = <<>> THEN d
    ELSE LET line == Head(lines)
             parts == Split(line, ":")
         IN IF Len(parts) < 2 THEN AddDetails(d, Tail(lines))
            ELSE AddDetails(
                     DictSet(d, Strip(parts[1]),
                             Strip(Join(Tail(parts), ":"))),
                     Tail(lines))

\* values_dict of do_export for a result row: the columns in canonical
\* order, then the credentials read back from the details text
ValuesDict(row) ==
    AddDetails([k \in DOMAIN column_names |->
                   [key |-> <<column_names[k]>>, value |-> CellText(row, k)]],
               SplitLines(row[12]))

RECURSIVE Replace(_, _, _)
\* line.replace(old, new): every occurrence of old from left to right, the
\* inserted text is not searched again by this call
Replace(line, old, new) ==
    IF Len(line) < Len(old) THEN line
    ELSE IF SubSeq(line, 1, Len(old)) = old
    THEN new \o Replace(SubSeq(line, Len(old) + 1, Len(line)), old, new)
    ELSE <<Head(line)>> \o Replace(Tail(line), old, new)

\* "{" + key + "}"
Placeholder(key) == <<"{">> \o key \o <<"}">>

RECURSIVE ReplaceAll(_, _)
\* the loop over values_dict.items(): one replace call per key, each on the
\* result of the call before
ReplaceAll(line, d) ==
    IF d = <<>> THEN line
    ELSE ReplaceAll(Replace(line, Placeholder(Head(d).key), Head(d).value),
                    Tail(d))

\* variant of EffectiveTemplate: the template is used as it was entered
TemplateAsEntered(template) == template

\* the template of the text export: the default when the field is empty
EffectiveTemplate(template) ==
    IF template = <<>> THEN DefaultTemplate ELSE template

\* the line written for a result row, with its line end
RenderLine(template, row) ==
    ReplaceAll(EffectiveTemplate(template), ValuesDict(row)) \o <<"\n">>

\* variant of CsvField: no field is quoted
CsvFieldBare(t) == t

\* a field as csv.writer writes it (QUOTE_MINIMAL): a field with a
\* delimiter, a quote or a line end is quoted, its quotes doubled
CsvField(t) ==
    IF \E k \in DOMAIN t : t[k] \in {",", "\"", "\r", "\n", "\r\n"}
    THEN <<"\"">>
           \o Concat([k \in DOMAIN t |->
                         IF t[k] = "\"" THEN <<"\"", "\"">> ELSE <<t[k]>>])
           \o <<"\"">>
    ELSE t

\* writer.writerow(fields): the record and its line end "\r\n"; a record
\* of one empty field is written as two quotes
CsvRecord(fields) ==
    (IF fields = <<<<>>>> THEN <<"\"", "\"">>
     ELSE Join([k \in DOMAIN fields |-> CsvField(fields[k])], ","))
        \o <<"\r\n">>

\* s.lower() of the atoms file names end with
Lower(a) ==
    CASE a = "CSV" -> "csv"
      [] a = "TXT" -> "txt"
      [] OTHER -> a

\* path.split('.')[-1].lower()
ExportFormat(path) ==
    LET parts == Split(path, ".") IN Lower(Join(<<parts[Len(parts)]>>, ""))[1]

\* selected_columns: the checked columns in canonical order
SelectedColumns ==
    SelectSeq(column_names, LAMBDA c : column_vars[c])

\* the orders in which a loop over the set S can visit its elements
Orders(S) ==
    {o \in [1 .. Cardinality(S) -> S] :
        \A a, b \in DOMAIN o : a # b => o[a] # o[b]}

\* variant of OriginalRow: the row is looked up by the display position of
\* the item
RowAtPosition(iid) ==
    results[CHOOSE k \in DOMAIN children : children[k] = iid]

\* original_rows[int(iid)]
OriginalRow(iid) == results[iid]

\* the text of the CSV file: the header, then one record per visited iid
\* with the cells of the selected columns (lines 383-407)
CsvContent(order) ==
    CsvRecord([k \in DOMAIN SelectedColumns |-> <<SelectedColumns[k]>>])
      \o Concat([j \in DOMAIN order |->
                    CsvRecord([k \in DOMAIN SelectedColumns |->
                                  CellText(OriginalRow(order[j]),
                                           ColumnIndex(SelectedColumns[k]))])])

\* the text of the text file: one rendered line per visited iid (lines
\* 414-441)
TextContent(order) ==
    Concat([j \in DOMAIN order |->
               RenderLine(template_var, OriginalRow(order[j]))])

\* variant of NothingSelected: the test is made on the displayed rows
NothingDisplayed == children = <<>>

\* not selected_iids
NothingSelected == selected_iids = {}

\* do_export, path being the answer of the save dialog (empty when the user
\* cancels) and order the order in which the loop visits selected_iids
DoExport(path, order) ==
    /\ win = "open"
    /\ order \in Orders(selected_iids)
    /\ IF NothingSelected
       THEN /\ message' = "No selection"
            /\ UNCHANGED <<win, dialog, file>>
       ELSE IF SelectedColumns = <<>> /\ format_var = "csv"
       THEN /\ message' = "No columns"
            /\ UNCHANGED <<win, dialog, file>>
       ELSE /\ dialog' = TRUE
            /\ IF path = <<>>
               THEN UNCHANGED <<win, message, file>>
               ELSE /\ file' = IF ExportFormat(path) = "csv"
                               THEN [written |-> TRUE, path |-> path,
                                     kind |-> "csv",
                                     content |-> CsvContent(order)]
                               ELSE [written |-> TRUE, path |-> path,
                                     kind |-> "text",
                                     content |-> TextContent(order)]
                  /\ message' = "Export Complete"
                  /\ win' = "destroyed"
    /\ UNCHANGED <<checker, table, children, selected_iids, select_all_var, last_iid,
                   sort_col, sort_reverse, heading, max_fs_var, bool_vars,
                   column_vars, format_var, template_var>>

\* a click on the checkbox of column col
ToggleColumn(col) ==
    /\ win = "open"
    /\ column_vars' = [column_vars EXCEPT ![col] = ~column_vars[col]]
    /\ UNCHANGED <<checker, table, win, children, selected_iids, select_all_var,
                   last_iid, sort_col, sort_reverse, heading, max_fs_var,
                   bool_vars, format_var, template_var, message, dialog, file>>

\* select_all_columns
SelectAllColumns ==
    /\ win = "open"
    /\ column_vars' = [c \in Columns |-> TRUE]
    /\ UNCHANGED <<checker, table, win, children, selected_iids, select_all_var,
                   last_iid, sort_col, sort_reverse, heading, max_fs_var,
                   bool_vars, format_var, template_var, message, dialog, file>>

\* deselect_all_columns
DeselectAllColumns ==
    /\ win = "open"
    /\ column_vars' = [c \in Columns |-> FALSE]
    /\ UNCHANGED <<checker, table, win, children, selected_iids, select_all_var,
                   last_iid, sort_col, sort_reverse, heading, max_fs_var,
                   bool_vars, format_var, template_var, message, dialog, file>>

\* a click on one of the Export Format radio buttons
SetFormat(f) ==
    /\ win = "open"
    /\ format_var' = f
    /\ UNCHANGED <<checker, table, win, children, selected_iids, select_all_var,
                   last_iid, sort_col, sort_reverse, heading, max_fs_var,
                   bool_vars, column_vars, template_var, message, dialog,
                   file>>

\* an edit of the template field that leaves text t
SetTemplate(t) ==
    /\ win = "open"
    /\ template_var' = t
    /\ UNCHANGED <<checker, table, win, children, selected_iids, select_all_var,
                   last_iid, sort_col, sort_reverse, heading, max_fs_var,
                   bool_vars, column_vars, format_var, message, dialog, file>>

\* the Cancel button: win.destroy
Cancel ==
    /\ win = "open"
    /\ win' = "destroyed"
    /\ UNCHANGED <<checker, table, children, selected_iids, select_all_var,
                   last_iid, sort_col, sort_reverse, heading, max_fs_var,
                   bool_vars, column_vars, format_var, template_var, message,
                   dialog, file>>

(* --------------------------- specifications --------------------------- *)

\* the steps of the task of line i
TaskStepOf(i, G, F) ==
    \/ Start(i)
    \/ \E r \in G : GeoReturn(i, r)
    \/ \E r \in F : FraudReturn(i, r)
    \/ HighRiskLoad(i)
    \/ HighRiskStore(i)
    \/ AppendRow(i)
    \/ TotalLoad(i)
    \/ TotalStore(i)

TaskStep(G, F) == \E i \in 1 .. Len(proxies) : TaskStepOf(i, G, F)

CoordStep == Submit \/ FutureResult \/ CoordReturn \/ Display

\* one run of main(): a single call from the empty aggregate
Next ==
    \/ runs = 0 /\ \E ps \in Batches, th \in 1 .. MaxThreads : Call(ps, th)
    \/ TaskStep(GeoResponses, FraudResponses)
    \/ CoordStep

Spec == Init /\ [][Next]_vars

\* repeated calls in one process, on a small choice of inputs
NextRerun ==
    \/ runs < MaxRuns
         /\ \E ps \in SeqsUpTo({OkLine, ShortLine}, MaxBatch),
               th \in 1 .. MaxThreads : Call(ps, th)
    \/ TaskStep({TransportError, GeoOk}, {FraudRejected, FraudFull(PyInt(75))})
    \/ CoordStep

SpecRerun == Init /\ [][NextRerun]_vars

\* one call on one or two lines, over every line of the alphabet
NextParse ==
    \/ runs = 0 /\ \E l \in AllLines : Call(<<l>>, 1)
    \/ runs = 0 /\ \E l1 \in AllLines, l2 \in AllLines, th \in 1 .. 2 :
                       Call(<<l1, l2>>, th)
    \/ TaskStep({TransportError, GeoOk}, {FraudRejected, FraudBare})
    \/ CoordStep

SpecParse == Init /\ [][NextParse]_vars

\* one run under fair scheduling: every worker thread that can take a step
\* eventually takes one, every request returns or times out (timeout=10),
\* and the calling thread runs
LiveGeo == {TransportError, GeoOk}

LiveFraud == {FraudRejected, FraudFull(PyInt(75))}

NextLive ==
    \/ runs = 0 /\ \E ps \in Batches, th \in 1 .. MaxThreads : Call(ps, th)
    \/ TaskStep(LiveGeo, LiveFraud)
    \/ CoordStep

Fairness ==
    /\ \A i \in 1 .. MaxBatch : WF_vars(TaskStepOf(i, LiveGeo, LiveFraud))
    /\ WF_vars(Submit \/ FutureResult \/ CoordReturn)

SpecLive == Init /\ [][NextLive]_vars /\ Fairness

\* a fraud answer of a clean address behind a VPN
FraudVpn(score) ==
    Json([success |-> PyBool(TRUE), fraud_score |-> score,
          ISP |-> PyStr("Telenor"), proxy |-> PyBool(FALSE),
          vpn |-> PyBool(TRUE), tor |-> PyBool(FALSE),
          mobile |-> PyBool(FALSE), recent_abuse |-> PyBool(FALSE),
          bot_status |-> PyBool(TRUE)])

\* the state in which the export window has just been constructed
\* (open_export_window up to its last line): main() has checked the lines
\* ls with one worker, line k got the fraud answer fs[k], every probe
\* succeeded, the results are displayed and the window shows all the rows
WindowOpened(ls, fs) ==
    LET n == Len(ls)
    IN /\ results = [k \in 1 .. n |->
                        Row(ls[k], GeoOk.body, fs[k].body, FraudScore(fs[k]))]
       /\ summary = [total |-> n,
                     high_risk |-> Cardinality({k \in 1 .. n :
                                                  HighRisk(FraudScore(fs[k]))})]
       /\ failed_proxies = <<>>
       /\ proxies = ls
       /\ threads = 1
       /\ coord = "displayed"
       /\ nsub = n
       /\ fidx = n
       /\ task = [k \in 1 .. n |->
                     [pc |-> "done", geo |-> GeoOk, fraud |-> fs[k],
                      fraud_score |-> FraudScore(fs[k]), tmp |-> k - 1,
                      exc |-> "none", geoReqs |-> 1, fraudReqs |-> 1]]
       /\ runs = 1
       /\ warning = NoWarning
       /\ win = "open"
       /\ children = [k \in 1 .. n |-> k]
       /\ selected_iids = {}
       /\ select_all_var = FALSE
       /\ last_iid = 0
       /\ sort_col = ""
       /\ sort_reverse = FALSE
       /\ heading = [c \in Columns |-> HandlerCommand]
       /\ max_fs_var = <<"1", "0", "0">>
       /\ bool_vars = [c \in bool_cols |-> "All"]
       /\ column_vars = [c \in Columns |-> TRUE]
       /\ format_var = "txt"
       /\ template_var = DefaultTemplate
       /\ message = ""
       /\ dialog = FALSE
       /\ file = NoFile
       /\ tree = [k \in 1 .. n |-> k]
       /\ tree_heading = [c \in Columns |-> FALSE]
       /\ details = <<>>

\* the fraud answers of the rows of the filter specification: score 80
\* flagged as proxy, score 50 behind a VPN, and an answer without fields
FilterFrauds == {FraudFull(PyInt(80)), FraudVpn(PyInt(50)), FraudBare}

\* the texts an edit of the Max Fraud Score field can leave; the last two
\* are rejected by on_validate
FsTexts ==
    {<<>>, <<"5", "0">>, <<"8", "0">>, <<"9", "0">>, <<"1", "0", "0">>,
     <<"1", "0", "1">>, <<"x">>}

\* the boolean columns whose filter the filter specification changes
FilterCols == {"Proxy", "VPN", "Bot Status"}

\* the columns whose heading the filter specification clicks
SortCols == {"Fraud Score"}

InitFilter ==
    \E n \in 1 .. MaxRows :
        \E fs \in [1 .. n -> FilterFrauds] :
            WindowOpened([k \in 1 .. n |-> OkLine], fs)

NextFilter ==
    \/ \E P \in FsTexts : SetMaxFs(P)
    \/ \E col \in FilterCols, v \in {"All", "True", "False"} :
           SetBoolFilter(col, v)
    \/ OnSelectAll
    \/ \E col \in SortCols : HeadingClick(col)
    \/ Cancel

\* the filters of the export window over a table of at most MaxRows rows
SpecFilter == InitFilter /\ [][NextFilter]_vars

\* a line whose user name is the text "{Password}"
BraceLine == <<"1", ":", "8", ":", "{", "Password", "}", ":", "p">>

\* a line whose password starts with a blank
PaddedLine == <<"1", ":", "8", ":", "u", ":", " ", "p">>

\* the probes of the export specification: a line and its fraud answer
ExportProbes ==
    {<<OkLine, FraudFull(PyInt(80))>>, <<BraceLine, FraudBare>>,
     <<PaddedLine, FraudFull(PyInt(80))>>}

\* a template with a placeholder that names no field
UnknownTemplate == <<"{", "Foo", "}", ":", "{", "Port", "}">>

Templates == {DefaultTemplate, <<>>, UnknownTemplate}

\* the answers of the save dialog; the empty path is a cancelled dialog
Paths ==
    {<<>>, <<"out", ".", "csv">>, <<"out", ".", "txt">>,
     <<"out", ".", "CSV">>}

\* the column whose checkbox the export specification clicks
ToggleCols == {"Location"}

InitExport ==
    \E n \in 1 .. MaxRows :
        \E ps \in [1 .. n -> ExportProbes] :
            WindowOpened([k \in 1 .. n |-> ps[k][1]],
                         [k \in 1 .. n |-> ps[k][2]])

NextExport ==
    \/ \E iid \in DOMAIN results : OnTreeClick(iid, FALSE)
    \/ OnCtrlA
    \/ OnClearSelected
    \/ \E col \in ToggleCols : ToggleColumn(col)
    \/ SelectAllColumns
    \/ DeselectAllColumns
    \/ \E f \in {"txt", "csv"} : SetFormat(f)
    \/ \E t \in Templates : SetTemplate(t)
    \/ \E path \in Paths : \E order \in Orders(selected_iids) :
           DoExport(path, order)

\* selection, export options and export over a table of at most MaxRows rows
SpecExport == InitExport /\ [][NextExport]_vars

\* the columns whose heading the table specification clicks
TableSortCols == {"Fraud Score", "Proxy"}

NextTable ==
    \/ \E col \in TableSortCols : TreeHeadingClick(col)
    \/ \E pos \in 1 .. MaxRows + 1 : ShowDetails(pos)

\* sorts and double-clicks in the results table of at most MaxRows rows
SpecTable == InitExport /\ [][NextTable]_vars

\* the texts the selection specification leaves in the Max Fraud Score field
SelectFsTexts == {<<"5", "0">>, <<"1", "0", "0">>}

\* the answers of the save dialog in the selection specification
SelectPaths == {<<"out", ".", "csv">>, <<"out", ".", "txt">>}

NextSelect ==
    \/ \E iid \in DOMAIN results, shift \in BOOLEAN : OnTreeClick(iid, shift)
    \/ OnSelectAll
    \/ OnCtrlA
    \/ OnClearSelected
    \/ \E P \in SelectFsTexts : SetMaxFs(P)
    \/ \E col \in SortCols : HeadingClick(col)
    \/ \E path \in SelectPaths : \E order \in Orders(selected_iids) :
           DoExport(path, order)

\* selection by clicks, filter changes, sorts and export over a table of
\* at most MaxRows rows
SpecSelect == InitExport /\ [][NextSelect]_vars

(* ------------------------------ helpers ------------------------------- *)

\* number of positions of sequence q that hold e
Count(q, e) == Cardinality({k \in DOMAIN q : q[k] = e})

\* number of positions of sequence q that satisfy P
CountIf(q, P(_)) == Cardinality({k \in DOMAIN q : P(q[k])})

\* the row was built from input line l: it carries its host and credentials
RowFrom(row, l) ==
    /\ Len(Split(l, ":")) = 4
    /\ LET f == Split(l, ":")
       IN row[1] = f[1] /\ row[12] = Details(f[3], f[4], f[2])

IsHighRiskRow(row) == row[5].n >= 75

LinesOfCall == {proxies[i] : i \in DOMAIN proxies}

\* the line has exactly three ':' characters, hence exactly four fields
FourFields(l) == Count(l, ":") = 3

\* the geolocation answer arrived, is JSON, has status 'success' and holds
\* the IP and location fields
GeoAccepted(g) ==
    /\ g.transport = "ok"
    /\ g.json
    /\ {"status", "query", "city", "regionName"} \subseteq DOMAIN g.body
    /\ g.body["status"] = PyStr("success")

\* the fraud answer arrived, is JSON, has a truthy success flag and a
\* fraud score that can be compared with 75 (or none)
FraudAccepted(f) ==
    /\ f.transport = "ok"
    /\ f.json
    /\ "success" \in DOMAIN f.body
    /\ f.body["success"] \in {PyBool(TRUE), PyInt(1)}
    /\ "fraud_score" \in DOMAIN f.body =>
           f.body["fraud_score"].ty \in {"int", "bool"}

Succeeds(i) ==
    /\ FourFields(proxies[i])
    /\ GeoAccepted(task[i].geo)
    /\ FraudAccepted(task[i].fraud)

\* the entry a line must leave in the aggregate, as a function of the line
\* and of the answers to its own two calls
Outcome(l, g, f) ==
    IF FourFields(l) /\ GeoAccepted(g) /\ FraudAccepted(f)
    THEN [kind |-> "row",
          entry |-> Row(l, g.body, f.body, Get(f.body, "fraud_score", PyInt(0)))]
    ELSE [kind |-> "failure",
          entry |-> IF FourFields(l) THEN l ELSE MalformedEntry(l)]

OutcomeOf(i) == Outcome(proxies[i], task[i].geo, task[i].fraud)

SameOutcome(a, b) == a.kind = b.kind /\ a.entry = b.entry

(* ------------------------------- claims ------------------------------- *)

\* C1: after a single run from the empty aggregate has returned, the number
\* of success rows plus the number of failure entries equals the number of
\* input lines, and every input line has contributed exactly one entry (a
\* row built from it, the line itself, or its "Malformed: " entry): nothing
\* is lost, duplicated or merged, whatever the interleaving.
C1_OneEntryPerLine ==
    coord = "returned" =>
        /\ Len(results) + Len(failed_proxies) = Len(proxies)
        /\ \A l \in LinesOfCall :
               CountIf(results, LAMBDA row : RowFrom(row, l))
                 + Count(failed_proxies, l)
                 + Count(failed_proxies, MalformedEntry(l))
               = Count(proxies, l)

C1_Witness ==
    /\ coord = "returned"
    /\ Len(proxies) >= 2
    /\ threads >= 2
    /\ results # <<>>
    /\ failed_proxies # <<>>

\* C2: after the run has returned, summary.total equals the number of rows
\* and summary.high_risk equals the number of rows with fraud score >= 75
\* (no increment is lost to a concurrent increment).
C2_CountersMatchRows ==
    coord = "returned" =>
        /\ summary.total = Len(results)
        /\ summary.high_risk = CountIf(results, IsHighRiskRow)

\* C3: in every reachable state of a run, summary.total equals the number
\* of rows and summary.high_risk the number of rows with fraud score >= 75
\* (the two increments and the append are one atomic step).
C3_CountersMatchRowsAlways ==
    /\ summary.total = Len(results)
    /\ summary.high_risk = CountIf(results, IsHighRiskRow)

\* C4: the call returns only after every submitted task has finished, and
\* from then on no step writes results, summary or failed_proxies.
C4_JoinedBeforeReturn ==
    [][(coord \in {"returned", "displayed"}) =>
          (nsub = Len(proxies) /\ (\A i \in Tasks : task[i].pc = "done")
              /\ aggregate' = aggregate)]_vars

C4_Witness ==
    /\ coord = "displayed"
    /\ Len(proxies) >= 2
    /\ results # <<>>
    /\ summary.total > 0

\* C5: after any sequence of calls the aggregate holds only the outcomes of
\* the most recent call: rows plus failures equal the number of lines of
\* the last call, and the counters count only the rows of that call.
C5_AggregateOfLastRunOnly ==
    coord = "returned" =>
        /\ Len(results) + Len(failed_proxies) = Len(proxies)
        /\ summary.total <= Len(proxies)
        /\ summary.high_risk <= Len(proxies)

\* C6: no exception of a task reaches the caller: no future stores an
\* exception, the call never raises, and after it returned the aggregate
\* holds, for every line, exactly the entry determined by that line and by
\* the answers to its own two calls.
C6_FailuresContained ==
    /\ coord \notin {"unwinding", "raised"}
    /\ \A i \in Tasks : task[i].exc = "none"
    /\ coord = "returned" =>
           \A i \in DOMAIN proxies :
               LET o == OutcomeOf(i)
                   k == Cardinality({j \in DOMAIN proxies :
                                         SameOutcome(OutcomeOf(j), o)})
               IN IF o.kind = "row"
                  THEN Count(results, o.entry) = k
                  ELSE Count(failed_proxies, o.entry) = k

C6_Witness ==
    /\ coord = "returned"
    /\ results # <<>>
    /\ \E i \in Tasks : task[i].geo = GeoNoQuery
    /\ \E i \in Tasks : task[i].fraud \in {FraudBare, FraudFull(PyInt(75))}

\* C7: a line is treated as a credential (a geolocation request is issued
\* for it) iff it has exactly four ':'-separated fields, whatever they
\* contain; any other line issues no request, produces no row and leaves
\* exactly one entry 'Malformed: <line>'; no line does both or neither.
C7_ParsingTotal ==
    /\ \A i \in Tasks :
           /\ ~FourFields(proxies[i]) =>
                  task[i].geoReqs = 0 /\ task[i].fraudReqs = 0
           /\ FourFields(proxies[i]) /\ task[i].pc # "queued" =>
                  task[i].geoReqs = 1
    /\ Len(results) <= Cardinality({i \in Tasks : FourFields(proxies[i])})
    /\ coord = "returned" =>
           \A l \in LinesOfCall :
               IF FourFields(l)
               THEN Count(failed_proxies, MalformedEntry(l)) = 0
               ELSE /\ Count(failed_proxies, MalformedEntry(l))
                         = Count(proxies, l)
                    /\ Count(failed_proxies, l) = 0

C7_Witness ==
    /\ coord = "returned"
    /\ proxies = << <<":", "x", ":", ":">>, <<":", ":", ":", ":">> >>
    /\ Len(results) = 1
    /\ failed_proxies = <<MalformedEntry(<<":", ":", ":", ":">>)>>

\* C8 as stated: a line has a row in results iff it parsed and both answers
\* were accepted; every other line is in failed_proxies as the original
\* line text and has no row; the warning is shown iff failed_proxies is
\* non-empty and lists every entry.
C8_FailureAsOriginalLine ==
    /\ coord \in {"returned", "displayed"} =>
           \A l \in LinesOfCall :
               LET ok == {i \in DOMAIN proxies : proxies[i] = l /\ Succeeds(i)}
                   ko == {i \in DOMAIN proxies : proxies[i] = l /\ ~Succeeds(i)}
               IN /\ CountIf(results, LAMBDA row : RowFrom(row, l))
                        = Cardinality(ok)
                  /\ Count(failed_proxies, l) = Cardinality(ko)
    /\ coord = "displayed" =>
           /\ warning.shown <=> failed_proxies # <<>>
           /\ warning.shown => Split(warning.text, "\n") = failed_proxies

\* C8 amended: as C8, but a line that did not parse is in failed_proxies as
\* 'Malformed: ' followed by the original line text; only a line that
\* parsed and then failed is there as the original line text.
C8_FailureNeverSuccess ==
    /\ coord \in {"returned", "displayed"} =>
           \A l \in LinesOfCall :
               LET ok == {i \in DOMAIN proxies : proxies[i] = l /\ Succeeds(i)}
                   ko == {i \in DOMAIN proxies : proxies[i] = l /\ ~Succeeds(i)}
               IN /\ CountIf(results, LAMBDA row : RowFrom(row, l))
                        = Cardinality(ok)
                  /\ Count(failed_proxies,
                           IF FourFields(l) THEN l ELSE MalformedEntry(l))
                        = Cardinality(ko)
                  /\ Len(results) + Len(failed_proxies) = Len(proxies)
    /\ coord = "displayed" =>
           /\ warning.shown <=> failed_proxies # <<>>
           /\ warning.shown => Split(warning.text, "\n") = failed_proxies

C8_Witness ==
    /\ coord = "displayed"
    /\ warning.shown
    /\ Len(results) = 1
    /\ \E i \in Tasks : ~FourFields(proxies[i])

\* C9: per task the two calls are ordered and never repeated: at most one
\* geolocation and one fraud request, the fraud request only after a
\* geolocation answer with status 'success', none after a failed
\* geolocation step.
C9_CallsOrderedOnce ==
    \A i \in Tasks :
        /\ task[i].geoReqs <= 1
        /\ task[i].fraudReqs <= 1
        /\ task[i].fraudReqs = 1 =>
               /\ task[i].geoReqs = 1
               /\ task[i].geo.transport = "ok"
               /\ task[i].geo.json
               /\ Get(task[i].geo.body, "status", PyNone) = PyStr("success")
        /\ task[i].geo # NoResponse /\ ~GeoAccepted(task[i].geo) =>
               task[i].fraudReqs = 0
        /\ task[i].fraud # NoResponse => task[i].pc \notin {"geo", "fraud"}

C9_Witness ==
    /\ \E i \in Tasks : task[i].fraudReqs = 1 /\ task[i].pc = "done"
    /\ \E i \in Tasks :
           /\ task[i].geo = GeoRejected
           /\ task[i].pc = "done"
           /\ task[i].fraudReqs = 0

\* C10: under fair scheduling, with every request returning or timing out,
\* a started call eventually returns; for the empty list it returns
\* without a task, a request or a change of the aggregate.
C10_CallReturns ==
    /\ (coord = "running") ~> (coord = "returned")
    /\ [](coord = "returned" /\ proxies = <<>> =>
              /\ task = <<>>
              /\ results = <<>>
              /\ failed_proxies = <<>>
              /\ summary = [total |-> 0, high_risk |-> 0])

C10_Witness ==
    /\ coord = "returned"
    /\ proxies = <<>>
    /\ runs = 1

\* C11: one task is created per input line, and in every state of a run
\* the number of check_proxy calls that have started and not yet finished
\* is at most the worker count of the call.
C11_PoolBounded ==
    /\ Len(task) = Len(proxies)
    /\ nsub <= Len(proxies)
    /\ coord \in {"returned", "displayed"} => nsub = Len(proxies)
    /\ Cardinality({i \in Tasks : task[i].pc \notin {"queued", "done"}})
           <= threads

C11_Witness ==
    /\ coord = "running"
    /\ Cardinality({i \in Tasks : task[i].pc \notin {"queued", "done"}})
           = threads
    /\ \E i \in Tasks : task[i].pc = "queued"

\* the fraud answer of task i arrived as JSON with a truthy success flag
FlagTruthy(i) ==
    /\ task[i].fraud.transport = "ok"
    /\ task[i].fraud.json
    /\ "success" \in DOMAIN task[i].fraud.body
    /\ task[i].fraud.body["success"] \in {PyBool(TRUE), PyInt(1)}

\* the fraud score of the answer of task i, 0 when the field is absent
ScoreOrZero(i) ==
    IF "fraud_score" \in DOMAIN task[i].fraud.body
    THEN task[i].fraud.body["fraud_score"]
    ELSE PyInt(0)

\* attribute k of the answer of task i, 'N/A' when the field is absent
AttrOrNA(i, k) ==
    IF k \in DOMAIN task[i].fraud.body
    THEN task[i].fraud.body[k]
    ELSE PyStr("N/A")

\* results holds a row of the line of task i with the score and the
\* attributes of its fraud answer, absent fields replaced by 0 and 'N/A'
HasRowWithDefaults(i) ==
    \E k \in DOMAIN results :
        /\ RowFrom(results[k], proxies[i])
        /\ results[k][4] = AttrOrNA(i, "ISP")
        /\ results[k][5] = ScoreOrZero(i)
        /\ results[k][6] = AttrOrNA(i, "proxy")
        /\ results[k][7] = AttrOrNA(i, "vpn")
        /\ results[k][8] = AttrOrNA(i, "tor")
        /\ results[k][9] = AttrOrNA(i, "mobile")
        /\ results[k][10] = AttrOrNA(i, "recent_abuse")
        /\ results[k][11] = AttrOrNA(i, "bot_status")

\* the task of line i is past the high_risk increment of its success path
PastHighRisk(i) ==
    task[i].pc \in {"append", "tot_load", "tot_store", "done"}

\* the threshold part of C19: only a task with a score of 75 or more
\* reaches the high_risk increment, every such task has executed it once
\* it is past it, and high_risk stays 0 when no score reaches 75
ThresholdAt75 ==
    /\ \A i \in Tasks :
           task[i].pc \in {"hr_load", "hr_store"} =>
               FlagTruthy(i) /\ ScoreOrZero(i).n >= 75
    /\ \A i \in Tasks :
           FlagTruthy(i) /\ ScoreOrZero(i).ty \in {"int", "bool"}
             /\ ScoreOrZero(i).n >= 75 /\ PastHighRisk(i) =>
               summary.high_risk >= 1
    /\ (\A i \in Tasks : ~(FlagTruthy(i) /\ ScoreOrZero(i).ty \in {"int", "bool"}
                              /\ ScoreOrZero(i).n >= 75)) =>
           summary.high_risk = 0

FailureReason(i) ==
    IF ~FourFields(proxies[i]) THEN "MalformedInput"
    ELSE IF task[i].geo.transport = "error" THEN "GeolocationUnreachable"
    ELSE IF ~GeoAccepted(task[i].geo) THEN "GeolocationRejected"
    ELSE IF task[i].fraud.transport = "error" THEN "FraudServiceUnreachable"
    ELSE "FraudServiceRejected"

\* C20: the failure entries identify their reason: when the same input
\* line fails twice for two different reasons, the two entries recorded in
\* failed_proxies are distinguishable.
C20_FailureReasonRecorded ==
    coord = "returned" =>
        \A i \in Tasks, j \in Tasks :
            /\ i # j
            /\ proxies[i] = proxies[j]
            /\ ~Succeeds(i)
            /\ ~Succeeds(j)
            /\ FailureReason(i) # FailureReason(j)
            => \E a \in DOMAIN failed_proxies, b \in DOMAIN failed_proxies :
                   failed_proxies[a] # failed_proxies[b]

\* the number in the Max Fraud Score field, an empty field counting as 0
MaximumFraudScore == IF max_fs_var = <<>> THEN 0 ELSE IntOf(max_fs_var)

\* the cell of boolean column col of result row k
BoolCell(k, col) == results[k][ColumnIndex(col)]

\* C12: the export table shows a row exactly when its fraud score is at
\* most the maximum fraud score and, for every boolean column whose filter
\* is not 'All', the string form of its value equals the required 'True'
\* or 'False'; a row whose value is 'N/A' is shown only when the filter of
\* that column is 'All'; every shown row is shown once.
C12_FilterShowsExactly ==
    win = "open" =>
        /\ Displayed =
               {k \in DOMAIN results :
                   /\ results[k][5].n <= MaximumFraudScore
                   /\ \A col \in bool_cols :
                          bool_vars[col] \in {"True", "False"} =>
                              Str(BoolCell(k, col)) = bool_vars[col]}
        /\ Len(children) = Cardinality(Displayed)
        /\ \A k \in Displayed, col \in bool_cols :
               BoolCell(k, col) = PyStr("N/A") => bool_vars[col] = "All"

C12_Witness ==
    /\ win = "open"
    /\ max_fs_var = <<"5", "0">>
    /\ bool_vars["VPN"] = "True"
    /\ \E k \in DOMAIN results : results[k][5] = PyInt(80) /\ k \notin Displayed
    /\ \E k \in DOMAIN results : results[k][5] = PyInt(50) /\ k \in Displayed

\* C13: filtering is idempotent: the rows the table shows are the rows of
\* the results that pass the filter, each once and in the order of the
\* results, and filtering these rows again with the same setting keeps
\* every one of them.
C13_FilterIdempotent ==
    win = "open" =>
        LET shown == FilterRows(results, max_fs_var, bool_vars)
            passed == [k \in DOMAIN shown |-> results[shown[k]]]
        IN /\ Displayed = {shown[k] : k \in DOMAIN shown}
           /\ Displayed \subseteq DOMAIN results
           /\ \A a \in DOMAIN shown, b \in DOMAIN shown :
                  a < b => shown[a] < shown[b]
           /\ FilterRows(passed, max_fs_var, bool_vars)
                  = [k \in DOMAIN shown |-> k]

C13_Witness ==
    /\ win = "open"
    /\ children # <<>>
    /\ Len(children) < Len(results)
    /\ bool_vars["Proxy"] = "True"
    /\ MaximumFraudScore = 90

\* the atoms of text t at the positions P, in their order
AtomsAt(t, P) ==
    [i \in 1 .. Cardinality(P) |->
        t[CHOOSE p \in P : Cardinality({q \in P : q < p}) = i - 1]]

\* the pieces of text t between the positions S, which are left out
PiecesBetween(t, S) ==
    LET cut(i) == IF i = 0 THEN 0
                  ELSE IF i = Cardinality(S) + 1 THEN Len(t) + 1
                  ELSE CHOOSE p \in S : Cardinality({q \in S : q < p}) = i - 1
    IN [i \in 1 .. Cardinality(S) + 1 |->
           SubSeq(t, cut(i - 1) + 1, cut(i) - 1)]

\* position k of text t is outside a quoted field: an even number of
\* quotes precedes it
Unquoted(t, k) == Cardinality({j \in 1 .. k - 1 : t[j] = "\""}) % 2 = 0

\* a field as a CSV reader returns it: a field that starts with a quote
\* loses the quotes around it and one quote of every doubled quote
CsvFieldValue(f) ==
    IF f = <<>> \/ Head(f) # "\"" THEN f
    ELSE AtomsAt(f, {k \in DOMAIN f :
                        \/ f[k] # "\""
                        \/ k > 1 /\ ~Unquoted(f, k + 1)})

\* the records a CSV reader finds in text t: a record ends at a line end
\* outside quotes, its fields are separated by the commas outside quotes,
\* and an empty line is a record of no field
ParseCsv(t) ==
    LET ends == {k \in DOMAIN t : t[k] = "\r\n" /\ Unquoted(t, k)}
        pieces == PiecesBetween(t, ends)
        lines == IF pieces[Len(pieces)] = <<>>
                 THEN SubSeq(pieces, 1, Len(pieces) - 1)
                 ELSE pieces
        fields(l) ==
            LET commas == {k \in DOMAIN l : l[k] = "," /\ Unquoted(l, k)}
                parts == PiecesBetween(l, commas)
            IN [k \in DOMAIN parts |-> CsvFieldValue(parts[k])]
    IN [r \in DOMAIN lines |->
           IF lines[r] = <<>> THEN <<>> ELSE fields(lines[r])]

\* the checked columns in canonical order
ChosenColumns ==
    SelectSeq(column_names, LAMBDA c : column_vars[c])

\* the values of the chosen columns of result row iid, in canonical order
ChosenValues(iid) ==
    [k \in DOMAIN ChosenColumns |->
        CellText(results[iid], ColumnIndex(ChosenColumns[k]))]

\* C14: a CSV export writes a file of 1 + (number of selected rows)
\* records: the header, whose fields are the chosen columns in canonical
\* order, then for each selected row exactly one record whose fields are
\* the values of the chosen columns of that row in canonical order; no
\* record carries the credential details.
C14_CsvHeaderAndRows ==
    file.written /\ file.kind = "csv" =>
        LET recs == ParseCsv(file.content)
        IN /\ Len(recs) = 1 + Cardinality(selected_iids)
           /\ recs[1] = [k \in DOMAIN ChosenColumns |-> <<ChosenColumns[k]>>]
           /\ \A r \in DOMAIN recs : Len(recs[r]) = Len(ChosenColumns)
           /\ \E order \in Orders(selected_iids) :
                  \A j \in DOMAIN order : recs[j + 1] = ChosenValues(order[j])
           /\ \A r \in DOMAIN recs : \A k \in DOMAIN recs[r] :
                  \A iid \in selected_iids : recs[r][k] # results[iid][12]

C14_Witness ==
    /\ file.written
    /\ file.kind = "csv"
    /\ Cardinality(selected_iids) = 2
    /\ Len(ChosenColumns) = 11
    /\ \E a \in selected_iids, b \in selected_iids :
           results[a][1] # results[b][1] \/ results[a][5] # results[b][5]

\* the literal values of result row iid by placeholder name: the cells of
\* the canonical columns and the port, user name and password fields of
\* the input line of the row
LiteralValues(iid) ==
    LET f == Split(proxies[iid], ":")
    IN [k \in DOMAIN column_names |->
           [key |-> <<column_names[k]>>, value |-> CellText(results[iid], k)]]
         \o <<[key |-> <<"Port">>, value |-> f[2]],
              [key |-> <<"Username">>, value |-> f[3]],
              [key |-> <<"Password">>, value |-> f[4]]>>

RECURSIVE SubstituteOnce(_, _)
\* template t with every placeholder that names a key of d replaced by the
\* value of the key; the inserted values are not searched
SubstituteOnce(t, d) ==
    IF t = <<>> THEN <<>>
    ELSE LET hits == {k \in DOMAIN d :
                         /\ Len(Placeholder(d[k].key)) <= Len(t)
                         /\ SubSeq(t, 1, Len(Placeholder(d[k].key)))
                                = Placeholder(d[k].key)}
         IN IF hits = {} THEN <<Head(t)>> \o SubstituteOnce(Tail(t), d)
            ELSE LET k == CHOOSE h \in hits : TRUE
                 IN d[k].value
                      \o SubstituteOnce(
                             SubSeq(t, Len(Placeholder(d[k].key)) + 1, Len(t)),
                             d)

\* C15: template rendering round-trips literal values: the text file holds,
\* for every selected row, the template with each placeholder that names a
\* canonical column, Port, Username or Password replaced by the literal
\* value of that field of the row, whatever the value contains.
C15_TemplateLiteralValues ==
    file.written /\ file.kind = "text" =>
        \E order \in Orders(selected_iids) :
            file.content =
                Concat([j \in DOMAIN order |->
                           SubstituteOnce(
                               IF template_var = <<>> THEN DefaultTemplate
                               ELSE template_var,
                               LiteralValues(order[j])) \o <<"\n">>])

\* text t holds the text sub as a block
Contains(t, sub) ==
    \E k \in 1 .. Len(t) - Len(sub) + 1 : SubSeq(t, k, k + Len(sub) - 1) = sub

\* the placeholders of template t that name no field
UnknownPlaceholders(t) ==
    {SubSeq(t, k, k + 2) : k \in {j \in 1 .. Len(t) - 2 :
        /\ t[j] = "{"
        /\ t[j + 2] = "}"
        /\ t[j + 1] \notin Columns \cup {"Port", "Username", "Password"}}}

\* C16: a text export writes exactly one newline-terminated line per
\* selected row; an empty template is replaced by the default template;
\* and a placeholder that names no field is left verbatim in every line.
C16_TextLines ==
    file.written /\ file.kind = "text" =>
        LET lines == SplitLines(file.content)
        IN /\ file.content[Len(file.content)] = "\n"
           /\ Len(lines) = Cardinality(selected_iids)
           /\ \E order \in Orders(selected_iids) :
                  \A j \in DOMAIN order :
                      lines[j] \o <<"\n">> =
                          RenderLine(IF template_var = <<>> THEN DefaultTemplate
                                     ELSE template_var,
                                     results[order[j]])
           /\ \A ph \in UnknownPlaceholders(template_var) :
                  \A j \in DOMAIN lines : Contains(lines[j], ph)

C16_Witness ==
    /\ file.written
    /\ file.kind = "text"
    /\ template_var = UnknownTemplate
    /\ Cardinality(selected_iids) = 2

\* C17: do_export never writes a CSV file when no column is chosen, while
\* a text export with no column chosen writes its lines.
C17_NoCsvWithoutColumns ==
    /\ file.written /\ file.kind = "csv" => ChosenColumns # <<>>
    /\ file.written /\ file.kind = "text" /\ ChosenColumns = <<>> =>
           Len(SplitLines(file.content)) = Cardinality(selected_iids)

\* C18: an export with no selected row shows the "No selection" message
\* and nothing else: no save dialog, no file, the window stays open and
\* the selection, the filters and the rows are unchanged.
C18_EmptySelectionRejected ==
    [][(selected_iids = {} /\ \E path \in Paths : DoExport(path, <<>>))
         => (/\ message' = "No selection"
             /\ dialog' = dialog
             /\ file' = file
             /\ win' = "open"
             /\ selected_iids' = {}
             /\ children' = children
             /\ select_all_var' = select_all_var
             /\ max_fs_var' = max_fs_var
             /\ bool_vars' = bool_vars
             /\ results' = results)]_vars

C18_Witness ==
    /\ win = "open"
    /\ message = "No selection"
    /\ selected_iids = {}
    /\ children # <<>>
    /\ ~dialog
    /\ ~file.written

\* C24: the export is written in the format of the Export Format choice:
\* whatever path the save dialog returns, the file written is a CSV file
\* exactly when the chosen format is csv, and a templated text otherwise.
C24_FormatAsChosen ==
    file.written => (file.kind = "csv" <=> format_var = "csv")

OrderedByScore(order, reverse) ==
    \A a \in DOMAIN order, b \in DOMAIN order :
        a < b =>
            IF reverse
            THEN results[order[a]][5].n >= results[order[b]][5].n
            ELSE results[order[a]][5].n <= results[order[b]][5].n

\* C23: a refresh re-applies the last sort: when the table has been sorted
\* by heading clicks on Fraud Score and is displayed in one direction, the
\* table that a filter change rebuilds is ordered in the same direction.
C23_RefreshKeepsSort ==
    [][\A d \in BOOLEAN :
           (/\ sort_col = "Fraud Score"
            /\ (max_fs_var' # max_fs_var \/ bool_vars' # bool_vars)
            /\ OrderedByScore(children, d)
            /\ ~OrderedByScore(children, ~d))
           => OrderedByScore(children', d)]_vars

\* result row k passes the filter that is set in the window
PassesActiveFilter(k) ==
    /\ results[k][5].n <= MaximumFraudScore
    /\ \A col \in bool_cols :
           bool_vars[col] # "All" => Str(BoolCell(k, col)) = bool_vars[col]

\* C21: after every step of the export window the selected row ids are
\* among the displayed rows, so every row an export has written passes the
\* filter that is active at export time; and a filter change leaves no row
\* selected unless Select All is on, in which case exactly the rows that
\* pass the new filter are selected.
C21_SelectionDisplayed ==
    [][/\ selected_iids' \subseteq Displayed'
       /\ file'.written => \A k \in selected_iids' : PassesActiveFilter(k)'
       /\ max_fs_var' # max_fs_var =>
              selected_iids' =
                  IF select_all_var
                  THEN {k \in DOMAIN results : PassesActiveFilter(k)'}
                  ELSE {}]_vars

C21_Witness ==
    /\ file.written
    /\ select_all_var
    /\ max_fs_var = <<"5", "0">>
    /\ selected_iids # {}
    /\ selected_iids # DOMAIN results
    /\ last_iid \notin Displayed

\* the iids displayed between the rows a and b, both included
DisplayedBetween(a, b) ==
    LET start == CHOOSE k \in DOMAIN children : children[k] = a
        end == CHOOSE k \in DOMAIN children : children[k] = b
    IN {children[k] : k \in (IF start < end THEN start ELSE end)
                              .. (IF start < end THEN end ELSE start)}

\* C22: a shift-click never fails: whenever a shift-click makes a range
\* selection (an anchor is remembered and another row is clicked), the
\* anchor is a displayed row and the displayed rows from the anchor to the
\* clicked row become selected.
C22_ShiftClickSucceeds ==
    [][\A iid \in DOMAIN results :
           (last_iid # 0 /\ iid # last_iid /\ OnTreeClick(iid, TRUE))
           => (/\ last_iid \in Displayed
               /\ message' # "Traceback"
               /\ selected_iids' =
                      selected_iids \cup DisplayedBetween(last_iid, iid))]_vars

\* C25: Select All is consistent with the selection: when it is on every
\* displayed row is selected, and when at least one row is displayed and
\* all displayed rows are selected it is on.
C25_SelectAllConsistent ==
    /\ select_all_var => Displayed \subseteq selected_iids
    /\ Displayed # {} /\ Displayed \subseteq selected_iids => select_all_var

C25_Witness ==
    /\ win = "open"
    /\ select_all_var
    /\ last_iid # 0
    /\ Cardinality(Displayed) = 2
    /\ selected_iids = Displayed
    /\ message = ""

\* the text an export of the rows results[order[j]] writes under the
\* options of the window
ContentOfRows(kind, order) ==
    IF kind = "csv"
    THEN CsvRecord([k \in DOMAIN ChosenColumns |-> <<ChosenColumns[k]>>])
           \o Concat([j \in DOMAIN order |->
                         CsvRecord([k \in DOMAIN ChosenColumns |->
                                       CellText(results[order[j]],
                                                ColumnIndex(ChosenColumns[k]))])])
    ELSE Concat([j \in DOMAIN order |->
                    ReplaceAll(EffectiveTemplate(template_var),
                               ValuesDict(results[order[j]])) \o <<"\n">>])

\* C27: export is independent of the display order: every displayed id i
\* denotes results[i], and after any sorts the file holds exactly the rows
\* results[i] of the marked ids i, each once, the credentials of a line
\* being those of the row whose Proxy IP the line carries.
C27_ExportByRowId ==
    /\ Displayed \subseteq DOMAIN results
    /\ Len(children) = Cardinality(Displayed)
    /\ file.written =>
           \E order \in Orders(selected_iids) :
               file.content = ContentOfRows(file.kind, order)

C27_Witness ==
    /\ file.written
    /\ file.kind = "text"
    /\ Len(children) = 2
    /\ children[1] > children[2]
    /\ Cardinality(selected_iids) = 1
    /\ results[1][12] # results[2][12]

\* C26: a double-click on a row of the results table shows the
\* credential details of the proxy displayed in that row, whatever sorts
\* have been applied to the table.
C26_DetailsOfDisplayedRow ==
    [][\A pos \in DOMAIN tree :
           ShowDetails(pos) => details' = results[tree[pos]][12]]_vars

====
